---------------------------- MODULE Spec2Model ----------------------------
(***************************************************************************)
(* Model of wwwhisper_auth/models.py: locations, users and permissions     *)
(* kept in database tables, the longest-prefix resolution of a request     *)
(* path to its governing location (find_parent) and the access decision    *)
(* built on it (can_access).                                               *)
(*                                                                         *)
(* Strings are sequences of one-character strings, so a Python index i     *)
(* (0-based) is the TLA+ index i + 1.                                      *)
(***************************************************************************)
EXTENDS Integers, Sequences, FiniteSets, Bags, TLC

VARIABLES
    locations,      \* rows of the Location table
    users,          \* rows of the User table
    permissions,    \* rows of the Permission table, a bag of (location, user) pairs
    uuid_counter,   \* number of uuid.uuid4() values drawn so far
    result,         \* what the last completed operation returned
    fp_all,         \* find_parent alone: the rows Location.objects.all() yields, in order
    fp_path,        \* find_parent alone: its argument normalized_path
    fp_ret,         \* find_parent alone: the returned location
    fp_pc,          \* find_parent alone: "call" before, "return" after
    adm,            \* overlapping requests: each administrative request's position
    chk,            \* overlapping requests: the authorization check's position
    deleted         \* re-creation: the locations and users deleted so far

vars == <<locations, users, permissions, uuid_counter, result,
          fp_all, fp_path, fp_ret, fp_pc, adm, chk, deleted>>

storeVars == <<locations, users, permissions, uuid_counter>>
fpVars == <<fp_all, fp_path, fp_ret, fp_pc>>
concVars == <<adm, chk>>
histVars == <<deleted>>

-----------------------------------------------------------------------------
(* Bounds *)

\* longest path string enumerated for find_parent
MaxLen == 3
\* most locations handed to find_parent when it is checked alone
MaxFindLocations == 2

\* characters of the enumerated paths
Chars == {"/", "a", "b"}

\* every string over Chars of length at most n
Strings(n) == UNION {[1..k -> Chars] : k \in 0..n}

-----------------------------------------------------------------------------
(* Values *)

\* Python's None where a path is expected: no path is empty
NoPath == <<>>
\* Python's None where a uuid is expected: uuid4 values are numbered from 1
NoUuid == 0
\* Python's None where a Location is expected
NoLocation == [path |-> NoPath, uuid |-> NoUuid, open_access |-> FALSE]

\* the administrative requests that may overlap
Admins == {"a1", "a2"}

\* an administrative request: op is the operation it runs and pc its next
\* step; path, email and user_id are the operation's locals; raised and
\* value are what it returned once pc is "done"
IdleAdmin ==
    [pc |-> "idle", op |-> "none", path |-> NoPath, email |-> <<>>,
     user_id |-> 0, raised |-> "", value |-> FALSE]

\* an authorization check: path and user_uuid are its arguments, location
\* the row find_parent returned, ret its decision once pc is "done"; before
\* is the decision the tables gave when it started, writes the number of
\* writes that happened while it ran and write the first of them, after the
\* decision the tables give when it ends
IdleCheck ==
    [pc |-> "idle", path |-> NoPath, user_uuid |-> NoUuid,
     location |-> NoLocation, ret |-> "", before |-> "", after |-> "",
     writes |-> 0, write |-> ""]

-----------------------------------------------------------------------------
(* url_path: the path checks create_item applies *)

\* s[from..] starts with the characters of sub
HasAt(s, from, sub) ==
    /\ from + Len(sub) - 1 <= Len(s)
    /\ SubSeq(s, from, from + Len(sub) - 1) = sub

Contains(s, sub) == \E i \in 1..Len(s) : HasAt(s, i, sub)

EndsWith(s, sub) ==
    /\ Len(sub) <= Len(s)
    /\ SubSeq(s, Len(s) - Len(sub) + 1, Len(s)) = sub

is_canonical(path) ==
    /\ Len(path) > 0
    /\ path[1] = "/"
    /\ ~Contains(path, <<"/", "/">>)
    /\ ~Contains(path, <<"/", ".", "/">>)
    /\ ~Contains(path, <<"/", ".", ".", "/">>)
    /\ ~EndsWith(path, <<"/", ".">>)
    /\ ~EndsWith(path, <<"/", ".", ".">>)

contains_fragment(path) == Contains(path, <<"#">>)
contains_query(path) == Contains(path, <<"?">>)
contains_params(path) == Contains(path, <<";">>)

-----------------------------------------------------------------------------
(* LocationsCollection.find_parent *)

\* str.startswith
StartsWith(s, prefix) ==
    /\ Len(prefix) <= Len(s)
    /\ SubSeq(s, 1, Len(prefix)) = prefix

\* a bug: a '/' is required after the location path also when the location
\* path ends in '/'
TrailingSlashIndexPastEnd(probed_path) == Len(probed_path)

\* trailing_slash_index, a 0-based index into normalized_path
TrailingSlashIndex(probed_path) ==
    IF probed_path[(Len(probed_path) - 1) + 1] = "/"
    THEN Len(probed_path) - 1
    ELSE Len(probed_path)

\* a bug: any string prefix matches, also in the middle of a segment
MatchesRawPrefix(normalized_path, probed_path, longest_matched_location_len) ==
    /\ StartsWith(normalized_path, probed_path)
    /\ Len(probed_path) > longest_matched_location_len

\* a bug: the last matching location wins, not the longest
MatchesLastWins(normalized_path, probed_path, longest_matched_location_len) ==
    /\ StartsWith(normalized_path, probed_path)
    /\ \/ Len(probed_path) = Len(normalized_path)
       \/ normalized_path[TrailingSlashIndex(probed_path) + 1] = "/"

\* a bug: the first matching location wins, not the longest
MatchesFirstWins(normalized_path, probed_path, longest_matched_location_len) ==
    /\ StartsWith(normalized_path, probed_path)
    /\ longest_matched_location_len = -1
    /\ \/ Len(probed_path) = Len(normalized_path)
       \/ normalized_path[TrailingSlashIndex(probed_path) + 1] = "/"

\* the condition under which the loop takes the probed location
Matches(normalized_path, probed_path, longest_matched_location_len) ==
    /\ StartsWith(normalized_path, probed_path)
    /\ Len(probed_path) > longest_matched_location_len
    /\ \/ Len(probed_path) = Len(normalized_path)
       \/ normalized_path[TrailingSlashIndex(probed_path) + 1] = "/"

\* the loop over the rows, in the order the query yields them
RECURSIVE FindParentLoop(_, _, _, _)
FindParentLoop(all, normalized_path, longest_matched_location,
               longest_matched_location_len) ==
    IF all = <<>>
    THEN longest_matched_location
    ELSE LET location == Head(all) IN
         IF Matches(normalized_path, location.path, longest_matched_location_len)
         THEN FindParentLoop(Tail(all), normalized_path, location,
                             Len(location.path))
         ELSE FindParentLoop(Tail(all), normalized_path,
                             longest_matched_location,
                             longest_matched_location_len)

find_parent(all, normalized_path) ==
    FindParentLoop(all, normalized_path, NoLocation, -1)

-----------------------------------------------------------------------------
(* _encode_email and _is_email_valid *)

\* characters of the enumerated emails
EmailChars == {"a", "A", "b", "@", "."}

\* characters the regexp's first class [\w.!#$%&'*+\-/=?\^`{|}~] accepts
LocalChars == {"a", "A", "b", "."}
\* characters the regexp's class [a-z0-9-] accepts
DomainChars == {"a", "b"}

\* str.lower, character by character
LowerChar(c) == IF c = "A" THEN "a" ELSE c
Lower(email) == [i \in 1..Len(email) |-> LowerChar(email[i])]

\* ^[\w.!#$%&'*+\-/=?\^`{|}~]+@[a-z0-9-]+(\.[a-z0-9-]+)+$
_is_email_valid(email) ==
    \E at \in 2..Len(email) - 1 :
        /\ email[at] = "@"
        /\ \A i \in 1..at - 1 : email[i] \in LocalChars
        /\ \A i \in at + 1..Len(email) : email[i] \in DomainChars \cup {"."}
        /\ \E i \in at + 1..Len(email) : email[i] = "."
        /\ email[at + 1] # "."
        /\ email[Len(email)] # "."
        /\ \A i \in at + 1..Len(email) - 1 : ~(email[i] = "." /\ email[i + 1] = ".")

\* the encoded email, or the empty string where ValidationError is raised
_encode_email(email) ==
    LET encoded_email == Lower(email) IN
    IF ~_is_email_valid(encoded_email) THEN <<>> ELSE encoded_email

-----------------------------------------------------------------------------
(* Queries *)

\* a bag of the rows of a set
AsBag(rows) == [r \in rows |-> 1]

\* the rows of bag B that satisfy Test
Filter(B, Test(_)) == [r \in {x \in DOMAIN B : Test(x)} |-> B[r]]

\* _find on the rows a filter matched: raised is "AssertionError" when more
\* than one row matched, else items holds the row, or nothing for None
_find(matching) ==
    LET count == BagCardinality(matching) IN
    IF count > 1 THEN [raised |-> "AssertionError", items |-> {}]
    ELSE [raised |-> "", items |-> DOMAIN matching]

\* Permission.objects.filter(user_username=user_uuid, http_location=path)
PermissionsOfUuid(user_uuid, path) ==
    LET Test(p) == /\ p.http_location_id = path
                   /\ \E u \in users : u.id = p.user_id /\ u.username = user_uuid
    IN  Filter(permissions, Test)

\* Permission.objects.filter(http_location_id=path, user_id=id)
PermissionsOfId(path, id) ==
    LET Test(p) == p.http_location_id = path /\ p.user_id = id
    IN  Filter(permissions, Test)

\* User.objects.filter(username=user_uuid)
UsersOfUuid(user_uuid) == AsBag({u \in users : u.username = user_uuid})

\* User.objects.filter(email=encoded_email)
UsersOfEmail(encoded_email) == AsBag({u \in users : u.email = encoded_email})

\* Location.objects.filter(path=path)
LocationsOfPath(path) == AsBag({l \in locations : l.path = path})

\* Location.objects.filter(uuid=uuid)
LocationsOfUuid(uuid) == AsBag({l \in locations : l.uuid = uuid})

\* the one element of a singleton set
TheItem(items) == CHOOSE x \in items : TRUE

-----------------------------------------------------------------------------
(* Location.can_access and get_permission, read off the current tables *)

\* a bug: an open location still asks for a permission
CanAccessIgnoringOpen(self, user_uuid) ==
    LET f == _find(PermissionsOfUuid(user_uuid, self.path)) IN
    [raised |-> f.raised, value |-> f.items # {}]

\* a bug: the permission of any ancestor location is inherited
CanAccessInherited(self, user_uuid) ==
    LET Test(p) == /\ StartsWith(self.path, p.http_location_id)
                   /\ \E u \in users : u.id = p.user_id /\ u.username = user_uuid
    IN  [raised |-> "",
         value |-> self.open_access \/ DOMAIN Filter(permissions, Test) # {}]

\* raised names the exception, if any; else value is the returned boolean
can_access(self, user_uuid) ==
    IF self.open_access
    THEN [raised |-> "", value |-> TRUE]
    ELSE LET f == _find(PermissionsOfUuid(user_uuid, self.path)) IN
         [raised |-> f.raised, value |-> f.items # {}]

\* raised is "LookupError" (msg tells which), "AssertionError" or "", and
\* then items holds the permission
get_permission(self, user_uuid) ==
    LET user == _find(UsersOfUuid(user_uuid)) IN
    IF user.raised # "" THEN [raised |-> user.raised, msg |-> "", items |-> {}]
    ELSE IF user.items = {}
    THEN [raised |-> "LookupError", msg |-> "User not found.", items |-> {}]
    ELSE LET permission ==
                 _find(PermissionsOfId(self.path, TheItem(user.items).id)) IN
         IF permission.raised # ""
         THEN [raised |-> permission.raised, msg |-> "", items |-> {}]
         ELSE IF permission.items = {}
         THEN [raised |-> "LookupError", msg |-> "User can not access location.",
               items |-> {}]
         ELSE [raised |-> "", msg |-> "", items |-> permission.items]

\* the orders in which a query may yield the rows
RECURSIVE Enumerations(_)
Enumerations(S) ==
    IF S = {} THEN {<<>>}
    ELSE UNION {{<<x>> \o e : e \in Enumerations(S \ {x})} : x \in S}

\* the decision of an authorization check on the location find_parent
\* returned
DecisionOn(location, user_uuid) ==
    IF location = NoLocation THEN "Unprotected"
    ELSE LET r == can_access(location, user_uuid) IN
         IF r.raised # "" THEN r.raised
         ELSE IF r.value THEN "Allowed" ELSE "Denied"

\* the decision of an authorization check: resolve the governing location
\* among the rows in the order `all`, then ask it
Decision(all, path, user_uuid) ==
    DecisionOn(find_parent(all, path), user_uuid)

-----------------------------------------------------------------------------
(* The tables and the operations on them, one at a time *)

\* uuid.uuid4() values that may be drawn in one behaviour
MaxUuid == 3

\* paths handed to LocationsCollection.create_item
CreatePaths ==
    { <<"/", "a">>, <<"/", "a", "/", "b">>, <<"a">>, <<"/", "a", "#", "?">>,
      <<"a", "#">>, <<"/", "a", "?", ";">>, <<"/", "a", ";">> }

\* emails handed to UsersCollection.create_item
EmailInputs ==
    { <<"a", "@", "b", ".", "a">>, <<"A", "@", "b", ".", "a">>,
      <<"b", "@", "b", ".", "a">>, <<"a", "@", "b">> }

\* uuid arguments: None (NoUuid), and every value uuid4 may have returned
UuidInputs == 0..MaxUuid

\* request paths of the authorization checks
RequestPaths ==
    { <<>>, <<"a">>, <<"/">>, <<"/", "a">>, <<"/", "a", "a">>, <<"/", "a", "/">>,
      <<"/", "b">>, <<"/", "a", "/", "b">>, <<"/", "a", "/", "a">>,
      <<"/", "a", "/", "b", "/">>, <<"/", "a", "/", "b", "b">>,
      <<"/", "a", "/", "b", "/", "a">> }

\* result: the operation, the exception it raised and its message, the
\* boolean it returned (created, or whether an item was deleted), and how
\* many permissions a delete took along
NoResult ==
    [op |-> "none", raised |-> "", msg |-> "", value |-> FALSE, cascaded |-> 0]

\* the AutoField value of a new row: one more than the largest in the table
NextId(rows) ==
    IF rows = {} THEN 1
    ELSE 1 + (CHOOSE m \in {r.id : r \in rows} : \A r \in rows : r.id <= m)

\* a bug: Location.save gives every location the same uuid
LocationSavedFixedUuid(path) ==
    [path |-> path, uuid |-> 1, open_access |-> FALSE]

\* Location.save: a uuid is drawn only when the location has none
LocationSaved(path) ==
    [path |-> path, uuid |-> uuid_counter + 1, open_access |-> FALSE]

\* a bug: the query check comes before the fragment check
CreateLocationErrorQueryFirst(path) ==
    LET creation(msg) == [raised |-> "CreationException", msg |-> msg] IN
    IF ~is_canonical(path)
    THEN creation("Path should be absolute and normalized")
    ELSE IF contains_query(path)
    THEN creation("Path should not contain query")
    ELSE IF contains_fragment(path)
    THEN creation("Path should not contain fragment")
    ELSE IF contains_params(path)
    THEN creation("Path should not contain parameters")
    ELSE IF _find(LocationsOfPath(path)).items # {}
    THEN creation("Location already exists.")
    ELSE [raised |-> "", msg |-> ""]

\* LocationsCollection.create_item up to the insert: the exception raised
\* for path and its message, raised "" when the location may be created
CreateLocationError(path) ==
    LET creation(msg) == [raised |-> "CreationException", msg |-> msg] IN
    IF ~is_canonical(path)
    THEN creation("Path should be absolute and normalized")
    ELSE IF contains_fragment(path)
    THEN creation("Path should not contain fragment")
    ELSE IF contains_query(path)
    THEN creation("Path should not contain query")
    ELSE IF contains_params(path)
    THEN creation("Path should not contain parameters")
    ELSE IF _find(LocationsOfPath(path)).raised # ""
    THEN [raised |-> _find(LocationsOfPath(path)).raised, msg |-> ""]
    ELSE IF _find(LocationsOfPath(path)).items # {}
    THEN creation("Location already exists.")
    ELSE [raised |-> "", msg |-> ""]

\* a bug: the location is inserted before the path is checked
CreateLocationUnchecked(path) ==
    /\ uuid_counter < MaxUuid
    /\ locations' = locations \cup {LocationSaved(path)}
    /\ uuid_counter' = uuid_counter + 1
    /\ UNCHANGED <<users, permissions>>

\* LocationsCollection.create_item: what it does to the tables
CreateLocationWrite(path) ==
    IF CreateLocationError(path).raised # ""
    THEN UNCHANGED storeVars
    ELSE /\ uuid_counter < MaxUuid
         /\ locations' = locations \cup {LocationSaved(path)}
         /\ uuid_counter' = uuid_counter + 1
         /\ UNCHANGED <<users, permissions>>

\* LocationsCollection.create_item
CreateLocation(path) ==
    LET error == CreateLocationError(path) IN
    /\ CreateLocationWrite(path)
    /\ result' = [NoResult EXCEPT !.op = "create_location",
                                  !.raised = error.raised, !.msg = error.msg]
    /\ UNCHANGED <<fpVars, histVars, concVars>>

\* a bug: the existing user is looked up by the email as given, not by the
\* encoded email
CreateUserErrorRaw(email) ==
    LET creation(msg) == [raised |-> "CreationException", msg |-> msg] IN
    IF _encode_email(email) = <<>>
    THEN creation("Invalid email format.")
    ELSE IF _find(UsersOfEmail(email)).items # {}
    THEN creation("User already exists.")
    ELSE [raised |-> "", msg |-> ""]

\* UsersCollection.create_item up to the insert: the exception raised for
\* email and its message, raised "" when the user may be created
CreateUserError(email) ==
    LET creation(msg) == [raised |-> "CreationException", msg |-> msg] IN
    IF _encode_email(email) = <<>>
    THEN creation("Invalid email format.")
    ELSE IF _find(UsersOfEmail(_encode_email(email))).raised # ""
    THEN [raised |-> _find(UsersOfEmail(_encode_email(email))).raised, msg |-> ""]
    ELSE IF _find(UsersOfEmail(_encode_email(email))).items # {}
    THEN creation("User already exists.")
    ELSE [raised |-> "", msg |-> ""]

\* the row User.objects.create inserts
UserCreated(encoded_email) ==
    [id |-> NextId(users), username |-> uuid_counter + 1, email |-> encoded_email]

\* UsersCollection.create_item: what it does to the tables
CreateUserWrite(email) ==
    IF CreateUserError(email).raised # ""
    THEN UNCHANGED storeVars
    ELSE /\ uuid_counter < MaxUuid
         /\ users' = users \cup {UserCreated(_encode_email(email))}
         /\ uuid_counter' = uuid_counter + 1
         /\ UNCHANGED <<locations, permissions>>

\* UsersCollection.create_item
CreateUser(email) ==
    LET error == CreateUserError(email) IN
    /\ CreateUserWrite(email)
    /\ result' = [NoResult EXCEPT !.op = "create_user",
                                  !.raised = error.raised, !.msg = error.msg]
    /\ UNCHANGED <<fpVars, histVars, concVars>>

\* a bug: deleting a location leaves the permissions that reference it
NoCascadeLocation(perms, path) == perms

\* Location.delete(): the permissions whose http_location references the
\* deleted location go with it
CascadeLocation(perms, path) ==
    [p \in {x \in DOMAIN perms : x.http_location_id # path} |-> perms[p]]

\* a bug: deleting a user leaves the permissions that reference it
NoCascadeUser(perms, id) == perms

\* User.delete(): the permissions whose user references the deleted user go
\* with it
CascadeUser(perms, id) ==
    [p \in {x \in DOMAIN perms : x.user_id # id} |-> perms[p]]

\* LocationsCollection.delete_item: what it does to the tables
DeleteLocationWrite(uuid) ==
    LET item == _find(LocationsOfUuid(uuid)) IN
    IF item.items = {}
    THEN UNCHANGED storeVars
    ELSE /\ locations' = locations \ item.items
         /\ permissions' = CascadeLocation(permissions, TheItem(item.items).path)
         /\ UNCHANGED <<users, uuid_counter>>

\* LocationsCollection.delete_item
DeleteLocation(uuid) ==
    LET item == _find(LocationsOfUuid(uuid)) IN
    /\ DeleteLocationWrite(uuid)
    /\ result' = [NoResult EXCEPT !.op = "delete_location",
                                  !.raised = item.raised,
                                  !.value = item.items # {},
                                  !.cascaded = BagCardinality(permissions)
                                                 - BagCardinality(permissions')]
    /\ UNCHANGED <<fpVars, histVars, concVars>>

\* UsersCollection.delete_item: what it does to the tables
DeleteUserWrite(uuid) ==
    LET item == _find(UsersOfUuid(uuid)) IN
    IF item.items = {}
    THEN UNCHANGED storeVars
    ELSE /\ users' = users \ item.items
         /\ permissions' = CascadeUser(permissions, TheItem(item.items).id)
         /\ UNCHANGED <<locations, uuid_counter>>

\* UsersCollection.delete_item
DeleteUser(uuid) ==
    LET item == _find(UsersOfUuid(uuid)) IN
    /\ DeleteUserWrite(uuid)
    /\ result' = [NoResult EXCEPT !.op = "delete_user",
                                  !.raised = item.raised,
                                  !.value = item.items # {},
                                  !.cascaded = BagCardinality(permissions)
                                                 - BagCardinality(permissions')]
    /\ UNCHANGED <<fpVars, histVars, concVars>>

\* the Permission row of a location and a user
PermissionRow(path, id) == [http_location_id |-> path, user_id |-> id]

\* a bug: grant_access inserts without looking for an existing permission
GrantAlwaysCreates(existing) == TRUE

\* grant_access: whether a Permission is created, given what _find returned
GrantCreates(existing) == existing = {}

\* Location.grant_access: the exception it raises, "" when it returns, and
\* whether it returns created=True
GrantAccessOutcome(self, user_uuid) ==
    LET user == _find(UsersOfUuid(user_uuid)) IN
    IF user.raised # ""
    THEN [raised |-> user.raised, msg |-> "", created |-> FALSE]
    ELSE IF user.items = {}
    THEN [raised |-> "LookupError", msg |-> "User not found", created |-> FALSE]
    ELSE LET permission ==
                 _find(PermissionsOfId(self.path, TheItem(user.items).id)) IN
         IF permission.raised # ""
         THEN [raised |-> permission.raised, msg |-> "", created |-> FALSE]
         ELSE [raised |-> "", msg |-> "",
               created |-> GrantCreates(permission.items)]

\* Location.grant_access: what it does to the tables
GrantAccessWrite(self, user_uuid) ==
    IF GrantAccessOutcome(self, user_uuid).created
    THEN /\ permissions' = permissions (+) SetToBag({PermissionRow(self.path,
                               TheItem(_find(UsersOfUuid(user_uuid)).items).id)})
         /\ UNCHANGED <<locations, users, uuid_counter>>
    ELSE UNCHANGED storeVars

\* Location.grant_access
GrantAccess(self, user_uuid) ==
    LET outcome == GrantAccessOutcome(self, user_uuid) IN
    /\ GrantAccessWrite(self, user_uuid)
    /\ result' = [NoResult EXCEPT !.op = "grant_access",
                                  !.raised = outcome.raised, !.msg = outcome.msg,
                                  !.value = outcome.created]
    /\ UNCHANGED <<fpVars, histVars, concVars>>

\* a bug: revoke_access deletes every permission on the location
RevokeAllOfLocation(self, user_uuid) ==
    LET permission == get_permission(self, user_uuid) IN
    IF permission.raised # ""
    THEN UNCHANGED storeVars
    ELSE /\ permissions' = CascadeLocation(permissions, self.path)
         /\ UNCHANGED <<locations, users, uuid_counter>>

\* Location.revoke_access: what it does to the tables
RevokeAccessWrite(self, user_uuid) ==
    LET permission == get_permission(self, user_uuid) IN
    IF permission.raised # ""
    THEN UNCHANGED storeVars
    ELSE /\ permissions' = permissions (-) SetToBag(permission.items)
         /\ UNCHANGED <<locations, users, uuid_counter>>

\* Location.revoke_access
RevokeAccess(self, user_uuid) ==
    LET permission == get_permission(self, user_uuid) IN
    /\ RevokeAccessWrite(self, user_uuid)
    /\ result' = [NoResult EXCEPT !.op = "revoke_access",
                                  !.raised = permission.raised,
                                  !.msg = permission.msg]
    /\ UNCHANGED <<fpVars, histVars, concVars>>

\* a bug: Location.save draws a new uuid on every save
SaveLocationNewUuid(self, open_access) ==
    (locations \ {l \in locations : l.path = self.path})
        \cup {[self EXCEPT !.open_access = open_access,
                           !.uuid = uuid_counter + 1]}

\* Location.save of a location that has its uuid: the row is written back
SaveLocation(self, open_access) ==
    (locations \ {l \in locations : l.path = self.path})
        \cup {[self EXCEPT !.open_access = open_access]}

\* Location.allowed_users: the users with a Permission on the location
allowed_users(self) ==
    {u \in users : BagIn(PermissionRow(self.path, u.id), permissions)}

\* a bug: opening a location drops the Permissions on it
GrantOpenAccessDropsPermissions(self) ==
    /\ locations' = SaveLocation(self, TRUE)
    /\ permissions' = CascadeLocation(permissions, self.path)
    /\ UNCHANGED <<users, uuid_counter>>

\* Location.grant_open_access: what it does to the tables
GrantOpenAccessWrite(self) ==
    /\ locations' = SaveLocation(self, TRUE)
    /\ UNCHANGED <<users, permissions, uuid_counter>>

\* Location.grant_open_access
GrantOpenAccess(self) ==
    /\ GrantOpenAccessWrite(self)
    /\ result' = [NoResult EXCEPT !.op = "grant_open_access"]
    /\ UNCHANGED <<fpVars, histVars, concVars>>

\* Location.revoke_open_access: what it does to the tables
RevokeOpenAccessWrite(self) ==
    /\ locations' = SaveLocation(self, FALSE)
    /\ UNCHANGED <<users, permissions, uuid_counter>>

\* Location.revoke_open_access
RevokeOpenAccess(self) ==
    /\ RevokeOpenAccessWrite(self)
    /\ result' = [NoResult EXCEPT !.op = "revoke_open_access"]
    /\ UNCHANGED <<fpVars, histVars, concVars>>

Init ==
    /\ locations = {}
    /\ users = {}
    /\ permissions = EmptyBag
    /\ uuid_counter = 0
    /\ result = NoResult
    /\ fp_all = <<>>
    /\ fp_path = NoPath
    /\ fp_ret = NoLocation
    /\ fp_pc = "call"
    /\ adm = [a \in Admins |-> IdleAdmin]
    /\ chk = IdleCheck
    /\ deleted = {}

Next ==
    \/ \E path \in CreatePaths : CreateLocation(path)
    \/ \E email \in EmailInputs : CreateUser(email)
    \/ \E uuid \in UuidInputs : DeleteLocation(uuid)
    \/ \E uuid \in UuidInputs : DeleteUser(uuid)
    \/ \E self \in locations, user_uuid \in UuidInputs : GrantAccess(self, user_uuid)
    \/ \E self \in locations, user_uuid \in UuidInputs : RevokeAccess(self, user_uuid)
    \/ \E self \in locations : GrantOpenAccess(self)
    \/ \E self \in locations : RevokeOpenAccess(self)

Spec == Init /\ [][Next]_vars

-----------------------------------------------------------------------------
(* Overlapping requests: every database query is one step, and the steps   *)
(* of different requests interleave.  create_item and grant_access look a  *)
(* row up and insert it in separate queries, and an authorization check    *)
(* reads the locations, counts the permissions and gets the permission in  *)
(* three.  delete_item, revoke_access and the open-access operations are   *)
(* taken as one step each.                                                 *)

\* paths handed to create_item and to the authorization check
ConcPaths == { <<"/", "a">>, <<"/", "a", "/", "b">> }

\* emails handed to create_item: one address in two spellings
ConcEmails == { <<"a", "@", "b", ".", "a">>, <<"A", "@", "b", ".", "a">> }

\* a write to the tables while an authorization check is between its queries
Wrote(kind) ==
    chk' = IF chk.pc \in {"count", "get"}
           THEN [chk EXCEPT !.writes = IF @ < 2 THEN @ + 1 ELSE @,
                            !.write = IF @ = "" THEN kind ELSE @]
           ELSE chk

Done(a, op, raised, value) ==
    adm' = [adm EXCEPT ![a] = [IdleAdmin EXCEPT !.pc = "done", !.op = op,
                                                !.raised = raised,
                                                !.value = value]]

\* LocationsCollection.create_item up to and including _find
CreateLocationLookup(a, path) ==
    LET error == CreateLocationError(path) IN
    /\ adm[a].pc = "idle"
    /\ IF error.raised # ""
       THEN Done(a, "create_location", error.raised, FALSE)
       ELSE adm' = [adm EXCEPT ![a] = [IdleAdmin EXCEPT !.pc = "insert",
                                          !.op = "create_location",
                                          !.path = path]]
    /\ UNCHANGED <<storeVars, result, fpVars, histVars, chk>>

\* ValidatedModel.save of a new Location: full_clean raises ValidationError
\* when a row with the primary key exists
LocationInsertError(path) ==
    IF \E l \in locations : l.path = path THEN "ValidationError" ELSE ""

\* Location.objects.create(path=path) and location.save()
CreateLocationInsert(a) ==
    LET path == adm[a].path
        raised == LocationInsertError(path)
    IN
    /\ adm[a].pc = "insert"
    /\ adm[a].op = "create_location"
    /\ uuid_counter < MaxUuid
    /\ uuid_counter' = uuid_counter + 1
    /\ IF raised # ""
       THEN UNCHANGED <<locations, chk>>
       ELSE locations' = locations \cup {LocationSaved(path)}
            /\ Wrote("create_location")
    /\ Done(a, "create_location", raised, FALSE)
    /\ UNCHANGED <<users, permissions, result, fpVars, histVars>>

\* UsersCollection.create_item up to and including _find
CreateUserLookup(a, email) ==
    LET error == CreateUserError(email) IN
    /\ adm[a].pc = "idle"
    /\ IF error.raised # ""
       THEN Done(a, "create_user", error.raised, FALSE)
       ELSE adm' = [adm EXCEPT ![a] = [IdleAdmin EXCEPT !.pc = "insert",
                                          !.op = "create_user",
                                          !.email = _encode_email(email)]]
    /\ UNCHANGED <<storeVars, result, fpVars, histVars, chk>>

\* User.objects.create(username=str(uuid.uuid4()), email=encoded_email)
CreateUserInsert(a) ==
    /\ adm[a].pc = "insert"
    /\ adm[a].op = "create_user"
    /\ uuid_counter < MaxUuid
    /\ uuid_counter' = uuid_counter + 1
    /\ users' = users \cup {UserCreated(adm[a].email)}
    /\ Wrote("create_user")
    /\ Done(a, "create_user", "", FALSE)
    /\ UNCHANGED <<locations, permissions, result, fpVars, histVars>>

\* Location.grant_access: _find(User, username=user_uuid)
GrantAccessFindUser(a, self, user_uuid) ==
    LET user == _find(UsersOfUuid(user_uuid)) IN
    /\ adm[a].pc = "idle"
    /\ IF user.raised # ""
       THEN Done(a, "grant_access", user.raised, FALSE)
       ELSE IF user.items = {}
       THEN Done(a, "grant_access", "LookupError", FALSE)
       ELSE adm' = [adm EXCEPT ![a] = [IdleAdmin EXCEPT !.pc = "find_permission",
                                          !.op = "grant_access",
                                          !.path = self.path,
                                          !.user_id = TheItem(user.items).id]]
    /\ UNCHANGED <<storeVars, result, fpVars, histVars, chk>>

\* Location.grant_access: _find(Permission, http_location_id, user_id)
GrantAccessFindPermission(a) ==
    LET permission == _find(PermissionsOfId(adm[a].path, adm[a].user_id)) IN
    /\ adm[a].pc = "find_permission"
    /\ IF permission.raised # ""
       THEN Done(a, "grant_access", permission.raised, FALSE)
       ELSE IF ~GrantCreates(permission.items)
       THEN Done(a, "grant_access", "", FALSE)
       ELSE adm' = [adm EXCEPT ![a].pc = "insert"]
    /\ UNCHANGED <<storeVars, result, fpVars, histVars, chk>>

\* ValidatedModel.save of a new Permission: full_clean raises ValidationError
\* when a foreign key references no row
PermissionInsertError(path, id) ==
    IF /\ \E l \in locations : l.path = path
       /\ \E u \in users : u.id = id
    THEN "" ELSE "ValidationError"

\* Location.grant_access: Permission.objects.create and permission.save()
GrantAccessInsert(a) ==
    LET raised == PermissionInsertError(adm[a].path, adm[a].user_id) IN
    /\ adm[a].pc = "insert"
    /\ adm[a].op = "grant_access"
    /\ IF raised # ""
       THEN UNCHANGED <<permissions, chk>>
       ELSE permissions' = permissions
                (+) SetToBag({PermissionRow(adm[a].path, adm[a].user_id)})
            /\ Wrote("grant_access")
    /\ Done(a, "grant_access", raised, raised = "")
    /\ UNCHANGED <<locations, users, uuid_counter, result, fpVars, histVars>>

\* the request is answered
AdminReturn(a) ==
    /\ adm[a].pc = "done"
    /\ adm' = [adm EXCEPT ![a] = IdleAdmin]
    /\ UNCHANGED <<storeVars, result, fpVars, histVars, chk>>

\* a delete, revoke or open-access operation that changes the tables
AtomicWrite ==
    /\ \/ \E uuid \in UuidInputs :
              DeleteLocationWrite(uuid) /\ Wrote("delete_location")
       \/ \E uuid \in UuidInputs :
              DeleteUserWrite(uuid) /\ Wrote("delete_user")
       \/ \E self \in locations, user_uuid \in UuidInputs :
              RevokeAccessWrite(self, user_uuid) /\ Wrote("revoke_access")
       \/ \E self \in locations :
              GrantOpenAccessWrite(self) /\ Wrote("grant_open_access")
       \/ \E self \in locations :
              RevokeOpenAccessWrite(self) /\ Wrote("revoke_open_access")
    /\ storeVars' # storeVars
    /\ UNCHANGED <<adm, result, fpVars, histVars>>

\* a create or grant, taken as one step, that changes the tables
AtomicCreate ==
    /\ \/ \E path \in ConcPaths :
              CreateLocationWrite(path) /\ Wrote("create_location")
       \/ \E email \in ConcEmails :
              CreateUserWrite(email) /\ Wrote("create_user")
       \/ \E self \in locations, user_uuid \in UuidInputs :
              GrantAccessWrite(self, user_uuid) /\ Wrote("grant_access")
    /\ storeVars' # storeVars
    /\ UNCHANGED <<adm, result, fpVars, histVars>>

\* the decision the tables give at once, in one order of the rows
DecisionNow(path, user_uuid) ==
    Decision(CHOOSE all \in Enumerations(locations) : TRUE, path, user_uuid)

\* the check has its decision
Decided(ret) ==
    chk' = [chk EXCEPT !.pc = "done", !.ret = ret,
                       !.after = DecisionNow(chk.path, chk.user_uuid)]

\* the authorization check: find_parent reads the locations, and can_access
\* reads open_access off the row it was handed
CheckFindParent(path, user_uuid, all) ==
    LET location == find_parent(all, path)
        started == [IdleCheck EXCEPT !.path = path, !.user_uuid = user_uuid,
                                     !.location = location,
                                     !.before = Decision(all, path, user_uuid),
                                     !.after = Decision(all, path, user_uuid)]
    IN
    /\ chk.pc = "idle"
    /\ chk' = IF location = NoLocation
              THEN [started EXCEPT !.pc = "done", !.ret = "Unprotected"]
              ELSE IF location.open_access
              THEN [started EXCEPT !.pc = "done", !.ret = "Allowed"]
              ELSE [started EXCEPT !.pc = "count"]
    /\ UNCHANGED <<storeVars, result, fpVars, histVars, adm>>

\* _find in can_access: item.count() and the assertion on it
CheckCount ==
    LET count == BagCardinality(
                     PermissionsOfUuid(chk.user_uuid, chk.location.path)) IN
    /\ chk.pc = "count"
    /\ IF count > 1 THEN Decided("AssertionError")
       ELSE IF count = 0 THEN Decided("Denied")
       ELSE chk' = [chk EXCEPT !.pc = "get"]
    /\ UNCHANGED <<storeVars, result, fpVars, histVars, adm>>

\* _find in can_access: item.get(), a second query
CheckGet ==
    LET num == BagCardinality(
                   PermissionsOfUuid(chk.user_uuid, chk.location.path)) IN
    /\ chk.pc = "get"
    /\ IF num = 1 THEN Decided("Allowed")
       ELSE IF num = 0 THEN Decided("DoesNotExist")
       ELSE Decided("MultipleObjectsReturned")
    /\ UNCHANGED <<storeVars, result, fpVars, histVars, adm>>

\* the check is answered
CheckReturn ==
    /\ chk.pc = "done"
    /\ chk' = IdleCheck
    /\ UNCHANGED <<storeVars, result, fpVars, histVars, adm>>

\* overlapping administrative requests
ConcNext ==
    \/ \E a \in Admins, path \in ConcPaths : CreateLocationLookup(a, path)
    \/ \E a \in Admins : CreateLocationInsert(a)
    \/ \E a \in Admins, email \in ConcEmails : CreateUserLookup(a, email)
    \/ \E a \in Admins : CreateUserInsert(a)
    \/ \E a \in Admins, self \in locations, user_uuid \in 0..uuid_counter :
           GrantAccessFindUser(a, self, user_uuid)
    \/ \E a \in Admins : GrantAccessFindPermission(a)
    \/ \E a \in Admins : GrantAccessInsert(a)
    \/ \E a \in Admins : AdminReturn(a)
    \/ AtomicWrite

SpecConc == Init /\ [][ConcNext]_vars

\* an authorization check that overlaps administrative requests, each of
\* them taken as one step
CheckNext ==
    \/ AtomicCreate
    \/ AtomicWrite
    \/ \E path \in ConcPaths, user_uuid \in 0..uuid_counter :
           \E all \in Enumerations(locations) :
               CheckFindParent(path, user_uuid, all)
    \/ CheckCount
    \/ CheckGet
    \/ CheckReturn

SpecCheck == Init /\ [][CheckNext]_vars

-----------------------------------------------------------------------------
(* Deletion and re-creation: the operations one at a time, with the rows   *)
(* that delete_item removed kept in `deleted`: what a client that saw them *)
(* still remembers of them.                                                *)

\* what is remembered of a deleted row: its table, its key (path or email),
\* its uuid, whether Permissions went with it and whether it was open
Remembered(kind, key, uuid, granted, open_access) ==
    [kind |-> kind, key |-> key, uuid |-> uuid, granted |-> granted,
     open_access |-> open_access]

\* LocationsCollection.delete_item, the deleted location remembered
DeleteLocationRemembered(uuid) ==
    LET item == _find(LocationsOfUuid(uuid)) IN
    /\ DeleteLocationWrite(uuid)
    /\ result' = [NoResult EXCEPT !.op = "delete_location",
                                  !.raised = item.raised,
                                  !.value = item.items # {},
                                  !.cascaded = BagCardinality(permissions)
                                                 - BagCardinality(permissions')]
    /\ deleted' = deleted \cup
           {Remembered("location", l.path, l.uuid,
                       permissions' # permissions, l.open_access) :
                l \in item.items}
    /\ UNCHANGED <<fpVars, concVars>>

\* UsersCollection.delete_item, the deleted user remembered
DeleteUserRemembered(uuid) ==
    LET item == _find(UsersOfUuid(uuid)) IN
    /\ DeleteUserWrite(uuid)
    /\ result' = [NoResult EXCEPT !.op = "delete_user",
                                  !.raised = item.raised,
                                  !.value = item.items # {},
                                  !.cascaded = BagCardinality(permissions)
                                                 - BagCardinality(permissions')]
    /\ deleted' = deleted \cup
           {Remembered("user", u.email, u.username,
                       permissions' # permissions, FALSE) :
                u \in item.items}
    /\ UNCHANGED <<fpVars, concVars>>

RecreateNext ==
    \/ \E path \in ConcPaths : CreateLocation(path)
    \/ \E email \in ConcEmails : CreateUser(email)
    \/ \E uuid \in UuidInputs : DeleteLocationRemembered(uuid)
    \/ \E uuid \in UuidInputs : DeleteUserRemembered(uuid)
    \/ \E self \in locations, user_uuid \in UuidInputs : GrantAccess(self, user_uuid)
    \/ \E self \in locations, user_uuid \in UuidInputs : RevokeAccess(self, user_uuid)
    \/ \E self \in locations : GrantOpenAccess(self)
    \/ \E self \in locations : RevokeOpenAccess(self)

SpecRecreate == Init /\ [][RecreateNext]_vars

-----------------------------------------------------------------------------
(* find_parent alone, on every list of locations with distinct canonical   *)
(* paths and every request path within the bounds                          *)

CanonicalPaths == {p \in Strings(MaxLen) : is_canonical(p)}

\* lists of at most n distinct paths
RECURSIVE PathLists(_)
PathLists(n) ==
    IF n = 0 THEN {<<>>}
    ELSE PathLists(n - 1) \cup
         {l \o <<p>> : l \in {k \in PathLists(n - 1) : Len(k) = n - 1},
                       p \in CanonicalPaths}

DistinctPaths(l) == \A i, j \in 1..Len(l) : i # j => l[i] # l[j]

FindInit ==
    /\ locations = {}
    /\ users = {}
    /\ permissions = EmptyBag
    /\ uuid_counter = 0
    /\ result = NoResult
    /\ \E l \in {k \in PathLists(MaxFindLocations) : DistinctPaths(k)} :
         fp_all = [i \in 1..Len(l) |->
                     [path |-> l[i], uuid |-> i, open_access |-> FALSE]]
    /\ fp_path \in Strings(MaxLen)
    /\ fp_ret = NoLocation
    /\ fp_pc = "call"
    /\ adm = [a \in Admins |-> IdleAdmin]
    /\ chk = IdleCheck
    /\ deleted = {}

FindParentCall ==
    /\ fp_pc = "call"
    /\ fp_ret' = find_parent(fp_all, fp_path)
    /\ fp_pc' = "return"
    /\ UNCHANGED <<fp_all, fp_path, storeVars, result, concVars, histVars>>

FindNext == FindParentCall

SpecFind == FindInit /\ [][FindNext]_vars

-----------------------------------------------------------------------------
(* What the resolution is specified to return, stated without the loop *)

\* request path p is under location path l on a segment boundary
Under(p, l) ==
    \/ p = l
    \/ /\ Len(l) > 0
       /\ Len(p) > Len(l)
       /\ \A i \in 1..Len(l) : p[i] = l[i]
       /\ (l[Len(l)] = "/" \/ p[Len(l) + 1] = "/")

\* C1: find_parent returns the location with the longest path that is a
\* boundary-respecting prefix of the request path, and None exactly when no
\* location is such a prefix.
C1_LongestBoundaryPrefix ==
    fp_pc = "return" =>
        LET governing == {i \in 1..Len(fp_all) : Under(fp_path, fp_all[i].path)}
        IN  IF governing = {}
            THEN fp_ret = NoLocation
            ELSE /\ \E i \in governing : fp_ret = fp_all[i]
                 /\ \A i \in governing : Len(fp_all[i].path) <= Len(fp_ret.path)

\* two locations govern the request path, the longer one enumerated first
C1_Witness ==
    /\ fp_pc = "return"
    /\ Len(fp_all) = 2
    /\ Under(fp_path, fp_all[1].path)
    /\ Under(fp_path, fp_all[2].path)
    /\ Len(fp_all[1].path) > Len(fp_all[2].path)
    /\ fp_ret = fp_all[1]

\* C4: a location whose path does not end in '/' governs a request path only
\* if the request path equals it or continues with '/' right after it; a
\* request path that extends the last segment is never matched by it.
C4_SegmentBoundary ==
    fp_pc = "return" =>
        \A i \in 1..Len(fp_all) :
            LET l == fp_all[i].path IN
            l[Len(l)] # "/" =>
                /\ (StartsWith(fp_path, l) /\ Len(fp_path) > Len(l)
                        /\ fp_path[Len(l) + 1] # "/")
                   => fp_ret # fp_all[i]
                /\ (fp_path = l \/ (StartsWith(fp_path, l) /\ Len(fp_path) > Len(l)
                                      /\ fp_path[Len(l) + 1] = "/"))
                   => (fp_ret # NoLocation /\ Len(fp_ret.path) >= Len(l))

\* the only location is a raw prefix of a request path that extends its last
\* segment, and the resolution finds nothing
C4_Witness ==
    /\ fp_pc = "return"
    /\ Len(fp_all) = 1
    /\ fp_all[1].path[Len(fp_all[1].path)] # "/"
    /\ StartsWith(fp_path, fp_all[1].path)
    /\ Len(fp_path) > Len(fp_all[1].path)
    /\ fp_path[Len(fp_all[1].path) + 1] # "/"
    /\ fp_ret = NoLocation

-----------------------------------------------------------------------------
(* Claims about the tables, one operation at a time *)

\* a Permission of the user with this uuid on the location with this path
HasPermission(path, user_uuid) ==
    \E u \in users :
        /\ u.username = user_uuid
        /\ BagIn(PermissionRow(path, u.id), permissions)

\* the locations whose path is a boundary-respecting prefix of p
Governing(p) == {l \in locations : Under(p, l.path)}

\* the most specific of them
MostSpecific(p) ==
    CHOOSE l \in Governing(p) : \A k \in Governing(p) : Len(k.path) <= Len(l.path)

\* C2: the decision for a request path depends only on the most specific
\* governing location; neither the open_access flag nor the permissions of a
\* less specific location are inherited, and paths under the less specific
\* location only are still decided by it.
C2_NoInheritance ==
    \A all \in Enumerations(locations) :
        \A p \in RequestPaths :
            Governing(p) # {} =>
                LET l == MostSpecific(p)
                    found == find_parent(all, p)
                IN  \A user_uuid \in UuidInputs :
                        DecisionOn(found, user_uuid) =
                            IF l.open_access \/ HasPermission(l.path, user_uuid)
                            THEN "Allowed" ELSE "Denied"

\* /a is open (or a user is granted /a), /a/b is closed and that user is not
\* granted: /a/b and a sub-path of it are denied, another path under /a is
\* allowed
C2_Witness ==
    \E A, B \in locations, user_uuid \in UuidInputs :
        /\ A.path = <<"/", "a">>
        /\ B.path = <<"/", "a", "/", "b">>
        /\ A.open_access \/ HasPermission(A.path, user_uuid)
        /\ ~B.open_access
        /\ ~HasPermission(B.path, user_uuid)
        /\ \A all \in Enumerations(locations) :
               /\ Decision(all, <<"/", "a", "/", "b">>, user_uuid) = "Denied"
               /\ Decision(all, <<"/", "a", "/", "b", "/", "a">>, user_uuid)
                      = "Denied"
               /\ Decision(all, <<"/", "a", "/", "a">>, user_uuid) = "Allowed"

\* C3: on a governing location L the decision is Allowed if L is open, also
\* for an absent user; otherwise Allowed exactly when a Permission for (L, u)
\* exists, so Denied for an absent or unknown user; with no governing
\* location the decision is Unprotected.
C3_DecisionTable ==
    /\ \A user_uuid \in UuidInputs :
           /\ DecisionOn(NoLocation, user_uuid) = "Unprotected"
           /\ \A L \in locations :
                  LET decision == DecisionOn(L, user_uuid) IN
                  IF L.open_access
                  THEN decision = "Allowed"
                  ELSE /\ decision \in {"Allowed", "Denied"}
                       /\ decision = "Allowed" <=> HasPermission(L.path, user_uuid)
                       /\ (user_uuid = NoUuid
                             \/ ~\E u \in users : u.username = user_uuid)
                          => decision = "Denied"
    /\ \A all \in Enumerations(locations) :
           \A p \in RequestPaths :
               find_parent(all, p) \in locations \cup {NoLocation}

\* a closed location with a granted user, an open one, and an ungoverned path
C3_Witness ==
    /\ \E l \in locations, u \in users :
           /\ ~l.open_access
           /\ HasPermission(l.path, u.username)
           /\ DecisionOn(l, u.username) = "Allowed"
           /\ DecisionOn(l, NoUuid) = "Denied"
    /\ \E l \in locations : l.open_access /\ DecisionOn(l, NoUuid) = "Allowed"
    /\ \E p \in RequestPaths :
           \A all \in Enumerations(locations) :
               Decision(all, p, NoUuid) = "Unprotected"

\* the Permissions of the user with this uuid on the location with this path
CountPermissions(path, user_uuid) ==
    BagCardinality(PermissionsOfUuid(user_uuid, path))

\* C6: for an existing user, a grant on a pair without a Permission returns
\* created=True, a grant on a pair with one returns created=False, and after
\* any grant exactly one Permission exists for the pair.
C6_GrantIdempotent ==
    [][\A self \in locations, user_uuid \in UuidInputs :
          (/\ result'.op = "grant_access"
           /\ \E u \in users : u.username = user_uuid
           /\ GrantAccess(self, user_uuid))
          =>  /\ result'.raised = ""
              /\ result'.value = (CountPermissions(self.path, user_uuid) = 0)
              /\ CountPermissions(self.path, user_uuid)' = 1]_vars

\* a grant has returned created=False
C6_Witness ==
    /\ result.op = "grant_access"
    /\ result.raised = ""
    /\ result.value = FALSE
    /\ \E self \in locations, u \in users :
           CountPermissions(self.path, u.username) = 1

\* C7: deleting a location removes every Permission on it, deleting a user
\* every Permission of that user, and no other; afterwards get_permission for
\* such a pair raises LookupError and can_access is not granted by it.
C7_CascadeDelete ==
    [][/\ \A gone \in locations :
            DeleteLocation(gone.uuid) =>
                /\ permissions' =
                       [p \in {x \in DOMAIN permissions :
                                 x.http_location_id # gone.path} |-> permissions[p]]
                /\ \A user_uuid \in UuidInputs :
                       /\ get_permission(gone, user_uuid)'.raised = "LookupError"
                       /\ can_access([gone EXCEPT !.open_access = FALSE],
                                     user_uuid)'.value = FALSE
       /\ \A gone \in users :
            DeleteUser(gone.username) =>
                /\ permissions' =
                       [p \in {x \in DOMAIN permissions : x.user_id # gone.id}
                          |-> permissions[p]]
                /\ \A l \in locations :
                       /\ get_permission(l, gone.username)'.raised = "LookupError"
                       /\ can_access([l EXCEPT !.open_access = FALSE],
                                     gone.username)'.value = FALSE
      ]_vars

\* a delete has removed a Permission and left another one
C7_Witness ==
    /\ result.op \in {"delete_location", "delete_user"}
    /\ result.value
    /\ result.cascaded >= 1
    /\ permissions # EmptyBag

-----------------------------------------------------------------------------
(* Claims about overlapping requests *)

\* C5: of create calls for one location path, or one user email, whose
\* lookup and insert steps interleave, the one that does not succeed fails
\* with the duplicate creation error (CreationException), and the tables
\* never hold two locations of one path or two users of one email.
C5_OneCreateWins ==
    /\ \A a \in Admins :
           (adm[a].pc = "done" /\ adm[a].op \in {"create_location", "create_user"})
           => adm[a].raised \in {"", "CreationException"}
    /\ \A l1, l2 \in locations : l1.path = l2.path => l1 = l2
    /\ \A u1, u2 \in users : u1.email = u2.email => u1 = u2

\* C10: at most one Permission exists per (location, user) pair, also when
\* two grant_access calls for the pair interleave their lookup and insert.
C10_OnePermissionPerPair ==
    \A p \in DOMAIN permissions : permissions[p] <= 1

\* C8: in every reachable state and for every user id, can_access on every
\* location returns Allowed or Denied and raises no exception and fails no
\* assertion.
C8_NeverRaises ==
    \A self \in locations, user_uuid \in UuidInputs :
        can_access(self, user_uuid).raised = ""

\* C9: an authorization check that overlaps one administrative write
\* (delete location, delete user, grant, revoke, open-access toggle) returns
\* the decision of the state before the write or of the state after it.
C9_BeforeOrAfter ==
    (/\ chk.pc = "done"
     /\ chk.writes = 1
     /\ chk.write \in {"delete_location", "delete_user", "grant_access",
                       "revoke_access", "grant_open_access",
                       "revoke_open_access"})
    => chk.ret \in {chk.before, chk.after}

-----------------------------------------------------------------------------
(* Further claims about the tables, one operation at a time *)

\* C11: revoke_access for a user that does not exist, or for a user without
\* a Permission on the location, raises LookupError and leaves the tables
\* unchanged; otherwise it deletes exactly the Permission of the pair, so
\* that a repeated revoke raises LookupError and a later grant returns
\* created=True.
C11_RevokeAccess ==
    [][\A self \in locations, user_uuid \in UuidInputs :
          (result'.op = "revoke_access" /\ RevokeAccess(self, user_uuid)) =>
              IF HasPermission(self.path, user_uuid)
              THEN /\ result'.raised = ""
                   /\ \E u \in users :
                          /\ u.username = user_uuid
                          /\ permissions' =
                                 [p \in DOMAIN permissions
                                        \ {PermissionRow(self.path, u.id)}
                                    |-> permissions[p]]
                   /\ UNCHANGED <<locations, users>>
                   /\ get_permission(self, user_uuid)'.raised = "LookupError"
                   /\ GrantAccessOutcome(self, user_uuid)'.created
              ELSE /\ result'.raised = "LookupError"
                   /\ UNCHANGED storeVars]_vars

\* a revoke has deleted a Permission and another Permission is left
C11_Witness ==
    /\ result.op = "revoke_access"
    /\ result.raised = ""
    /\ permissions # EmptyBag

\* C12: whenever create_item for a location or for a user raises
\* CreationException, the locations, users and permissions are exactly what
\* they were before the call.
C12_FailedCreateNoChange ==
    [][(/\ result'.op \in {"create_location", "create_user"}
        /\ result'.raised = "CreationException"
        /\ \/ \E path \in CreatePaths : CreateLocation(path)
           \/ \E email \in EmailInputs : CreateUser(email))
       => UNCHANGED <<locations, users, permissions>>]_vars

\* a create has failed on tables that hold a location, a user and a
\* permission
C12_Witness ==
    /\ result.op \in {"create_location", "create_user"}
    /\ result.raised = "CreationException"
    /\ locations # {}
    /\ users # {}
    /\ permissions # EmptyBag

\* C13: after any sequence of create, delete, grant, revoke and open-access
\* operations, every stored Permission references a location and a user
\* that both exist.
C13_ReferentialIntegrity ==
    \A p \in DOMAIN permissions :
        /\ \E l \in locations : l.path = p.http_location_id
        /\ \E u \in users : u.id = p.user_id

\* a user with a Permission has been deleted, and a Permission of another
\* user is left
C13_Witness ==
    /\ result.op = "delete_user"
    /\ result.cascaded >= 1
    /\ \E p \in DOMAIN permissions, u \in users : u.id = p.user_id

\* C14: after any sequence of non-overlapping operations no two locations
\* share a path, no two users share an email or an identifier, no two
\* Permissions share a (location, user) pair, and the assertion count <= 1
\* of _find holds on every lookup.
C14_KeysUnique ==
    /\ \A l1, l2 \in locations :
           (l1.path = l2.path \/ l1.uuid = l2.uuid) => l1 = l2
    /\ \A u1, u2 \in users :
           (u1.email = u2.email \/ u1.username = u2.username \/ u1.id = u2.id)
           => u1 = u2
    /\ \A p \in DOMAIN permissions : permissions[p] = 1
    /\ result.raised # "AssertionError"
    /\ \A path \in CreatePaths : _find(LocationsOfPath(path)).raised = ""
    /\ \A email \in EmailInputs :
           _find(UsersOfEmail(_encode_email(email))).raised = ""
    /\ \A uuid \in UuidInputs :
           /\ _find(LocationsOfUuid(uuid)).raised = ""
           /\ _find(UsersOfUuid(uuid)).raised = ""
           /\ \A self \in locations :
                  /\ _find(PermissionsOfUuid(uuid, self.path)).raised = ""
                  /\ \A u \in users :
                         _find(PermissionsOfId(self.path, u.id)).raised = ""

\* a second spelling of a stored email has been refused, with two users, a
\* location and a Permission stored
C14_Witness ==
    /\ result.op = "create_user"
    /\ result.msg = "User already exists."
    /\ Cardinality(users) >= 2
    /\ locations # {}
    /\ permissions # EmptyBag

\* C15: after create_item(p) succeeds, the lookup by path p returns a
\* location with path p, open_access false, no allowed users and a non-empty
\* identifier that differs from that of every other location; and the
\* identifier of a stored location never changes.
C15_CreateRoundTrip ==
    [][/\ \A path \in CreatePaths :
              (/\ result'.op = "create_location"
               /\ result'.raised = ""
               /\ CreateLocation(path))
              => /\ _find(LocationsOfPath(path))'.raised = ""
                 /\ \E l \in locations' :
                        /\ _find(LocationsOfPath(path))'.items = {l}
                        /\ l.path = path
                        /\ ~l.open_access
                        /\ l.uuid # NoUuid
                        /\ allowed_users(l)' = {}
                        /\ \A other \in locations' \ {l} : other.uuid # l.uuid
       /\ \A l \in locations :
              \A k \in locations' : k.path = l.path => k.uuid = l.uuid]_vars

\* a second location has been created while the first has an allowed user
\* and is open
C15_Witness ==
    /\ result.op = "create_location"
    /\ result.raised = ""
    /\ Cardinality(locations) = 2
    /\ \E l \in locations : l.open_access /\ allowed_users(l) # {}

-----------------------------------------------------------------------------
(* Further claims about the resolution *)

\* C16: a location whose path ends in '/' governs exactly the request paths
\* that have its path as a string prefix, and not the same path written
\* without the trailing slash; with the root location '/' stored,
\* find_parent never returns None for a request path starting with '/'.
C16_TrailingSlash ==
    fp_pc = "return" =>
        /\ \A i \in 1..Len(fp_all) :
               LET l == fp_all[i].path IN
               l[Len(l)] = "/" =>
                   /\ StartsWith(fp_path, l)
                      => (fp_ret # NoLocation /\ Len(fp_ret.path) >= Len(l))
                   /\ ~StartsWith(fp_path, l) => fp_ret # fp_all[i]
                   /\ fp_path = SubSeq(l, 1, Len(l) - 1) => fp_ret # fp_all[i]
                   /\ Len(fp_all) = 1
                      => (fp_ret = fp_all[i] <=> StartsWith(fp_path, l))
        /\ ((\E i \in 1..Len(fp_all) : fp_all[i].path = <<"/">>)
            /\ StartsWith(fp_path, <<"/">>))
           => fp_ret # NoLocation

\* a location that ends in '/' is returned for a longer request path that
\* does not continue with '/', and another one is not returned for its path
\* written without the trailing slash
C16_Witness ==
    /\ fp_pc = "return"
    /\ Len(fp_all) = 2
    /\ \E i, j \in 1..2 :
           /\ fp_ret = fp_all[i]
           /\ fp_all[i].path[Len(fp_all[i].path)] = "/"
           /\ Len(fp_path) > Len(fp_all[i].path)
           /\ fp_path[Len(fp_all[i].path) + 1] # "/"
           /\ Len(fp_all[j].path) > 1
           /\ fp_all[j].path[Len(fp_all[j].path)] = "/"
           /\ fp_path = SubSeq(fp_all[j].path, 1, Len(fp_all[j].path) - 1)

\* C17: the result of find_parent does not depend on the order in which the
\* locations are enumerated: no two distinct locations of equal path length
\* both match, and every enumeration order yields the same location.
C17_OrderIndependent ==
    fp_pc = "return" =>
        /\ \A i, j \in 1..Len(fp_all) :
               (/\ i # j
                /\ Len(fp_all[i].path) = Len(fp_all[j].path)
                /\ Matches(fp_path, fp_all[i].path, -1))
               => ~Matches(fp_path, fp_all[j].path, -1)
        /\ \A all \in Enumerations({fp_all[i] : i \in 1..Len(fp_all)}) :
               find_parent(all, fp_path) = fp_ret

\* two locations match the request path, the shorter one enumerated first,
\* and the longer one is returned
C17_Witness ==
    /\ fp_pc = "return"
    /\ Len(fp_all) = 2
    /\ Matches(fp_path, fp_all[1].path, -1)
    /\ Matches(fp_path, fp_all[2].path, -1)
    /\ Len(fp_all[1].path) < Len(fp_all[2].path)
    /\ fp_ret = fp_all[2]
    /\ find_parent(<<fp_all[2], fp_all[1]>>, fp_path) = fp_all[2]

-----------------------------------------------------------------------------
(* Further claims about creation and deletion *)

\* C18: in every state, location creation reports for every path the first
\* check that fails, in the order not canonical, fragment, query, params,
\* already registered; the duplicate check is reached only for paths that
\* pass the four validity checks.
C18_CheckOrder ==
    /\ \A path \in CreatePaths :
           LET error == CreateLocationError(path)
               canonical == is_canonical(path)
               fragment == contains_fragment(path)
               query == contains_query(path)
               params == contains_params(path)
               valid == canonical /\ ~fragment /\ ~query /\ ~params
               stored == \E l \in locations : l.path = path
           IN
           /\ ~canonical
              => error.msg = "Path should be absolute and normalized"
           /\ (canonical /\ fragment)
              => error.msg = "Path should not contain fragment"
           /\ (canonical /\ ~fragment /\ query)
              => error.msg = "Path should not contain query"
           /\ (canonical /\ ~fragment /\ ~query /\ params)
              => error.msg = "Path should not contain parameters"
           /\ error.msg = "Location already exists." <=> (valid /\ stored)
           /\ error.raised = (IF valid /\ ~stored THEN ""
                              ELSE "CreationException")
    /\ result.op = "create_location"
       => \E path \in CreatePaths :
              /\ result.msg \in {CreateLocationError(path).msg, ""}
              /\ result.raised = (IF result.msg = "" THEN ""
                                  ELSE "CreationException")

\* a path with a query and params is refused for the query, with a location
\* stored
C18_Witness ==
    /\ result.op = "create_location"
    /\ result.msg = "Path should not contain query"
    /\ locations # {}

\* C19: after a location is deleted and a location with the same path is
\* created, or a user is deleted and a user with the same email is created,
\* the new entity has a different identifier, the new location is closed,
\* and no Permission of the old entity applies to the new one.
C19_NoGrantSurvives ==
    [][/\ \A path \in ConcPaths :
              (/\ result'.op = "create_location"
               /\ result'.raised = ""
               /\ CreateLocation(path))
              => \A d \in deleted :
                     (d.kind = "location" /\ d.key = path) =>
                         \E l \in locations' :
                             /\ l.path = path
                             /\ l.uuid # d.uuid
                             /\ ~l.open_access
                             /\ allowed_users(l)' = {}
                             /\ \A uuid \in UuidInputs :
                                    ~can_access(l, uuid)'.value
       /\ \A email \in ConcEmails :
              (/\ result'.op = "create_user"
               /\ result'.raised = ""
               /\ CreateUser(email))
              => \A d \in deleted :
                     (d.kind = "user" /\ d.key = _encode_email(email)) =>
                         \E u \in users' :
                             /\ u.email = d.key
                             /\ u.username # d.uuid
                             /\ \A l \in locations :
                                    /\ ~HasPermission(l.path, u.username)'
                                    /\ ~HasPermission(l.path, d.uuid)'
                                    /\ get_permission(l, u.username)'.raised
                                           = "LookupError"]_vars

\* an open location with an allowed user has been deleted and a location
\* with its path has just been created, the user still stored
C19_Witness ==
    /\ result.op = "create_location"
    /\ result.raised = ""
    /\ users # {}
    /\ Cardinality(locations) = 1
    /\ \E d \in deleted, l \in locations :
           /\ d.kind = "location"
           /\ d.key = l.path
           /\ d.granted
           /\ d.open_access

-----------------------------------------------------------------------------
(* The open-access operations *)

\* only the open_access flag of self changes, to flag
OnlyFlagChanges(self, flag) ==
    /\ locations' = (locations \ {self}) \cup {[self EXCEPT !.open_access = flag]}
    /\ UNCHANGED <<users, permissions>>

\* in the state after grant_open_access on self, a revoke_open_access on it
\* would restore the locations and the decision of every user on it
RevokeRestores(self) ==
    /\ SaveLocation([self EXCEPT !.open_access = TRUE], FALSE)' = locations
    /\ \A user_uuid \in UuidInputs :
           can_access([self EXCEPT !.open_access = FALSE], user_uuid)'.value
               = can_access(self, user_uuid).value

\* C20 as stated: grant_open_access and revoke_open_access change only the
\* open_access flag of the location they are called on, and
\* grant_open_access followed by revoke_open_access restores the access
\* decisions that held before, on every location.
C20_OpenAccessRoundTrip ==
    [][\A self \in locations :
          /\ (result'.op = "grant_open_access" /\ GrantOpenAccess(self))
             => (OnlyFlagChanges(self, TRUE) /\ RevokeRestores(self))
          /\ (result'.op = "revoke_open_access" /\ RevokeOpenAccess(self))
             => OnlyFlagChanges(self, FALSE)]_vars

\* C20, amended: grant_open_access and revoke_open_access change only the
\* open_access flag of the location they are called on, and
\* grant_open_access followed by revoke_open_access restores the access
\* decisions that held before on a location that was closed; a location
\* that was open is left closed.
C20_OpenAccessFrame ==
    [][\A self \in locations :
          /\ (result'.op = "grant_open_access" /\ GrantOpenAccess(self))
             => /\ OnlyFlagChanges(self, TRUE)
                /\ ~self.open_access => RevokeRestores(self)
                /\ SaveLocation([self EXCEPT !.open_access = TRUE], FALSE)'
                       = (locations \ {self})
                             \cup {[self EXCEPT !.open_access = FALSE]}
          /\ (result'.op = "revoke_open_access" /\ RevokeOpenAccess(self))
             => OnlyFlagChanges(self, FALSE)]_vars

\* a location with an allowed user has been opened, next to a closed one
C20_Witness ==
    /\ result.op = "grant_open_access"
    /\ Cardinality(locations) = 2
    /\ \E l, k \in locations :
           /\ l.open_access
           /\ allowed_users(l) # {}
           /\ ~k.open_access

=============================================================================
